---- MODULE Spec2Model ----
(***************************************************************************)
(* SEO analyzer service: the outbound fetch pipeline of one analysis       *)
(* request (server/services/seoAnalyzer.ts, the SSRF-protected version).   *)
(*                                                                         *)
(* Text (host names, IP literals, port strings) is a sequence of           *)
(* one-character strings, so that the regular expressions of the source    *)
(* are evaluated on the characters they are written against.               *)
(***************************************************************************)
EXTENDS Integers, Sequences, FiniteSets, TLC

VARIABLES
  route,        \* position of the POST /api/analyze handler: validate, await, responded
  sent,         \* the responses the handler has sent
  pc,           \* position of analyzeWebsite: sanitize, resolve4, resolve6, preflight, fetch,
                \* parse, score, done
  ctx,          \* call site of the running sanitize: "initial" (analyzeWebsite) or "redirect" (fetchHTML)
  cand,         \* argument of the running / last validateAndSanitizeUrl call
  url,          \* the validated URL handed to preflightCheck / fetchHTML
  ipv4Success,  \* validateHostname local
  ipv6Success,  \* validateHostname local
  v4ans,        \* what dnsResolve4 answered when the hostname of cand was validated
  v6ans,        \* what dnsResolve6 answered (both kept in hand until the GET of the hop is sent)
  sanResult,    \* how the last validateAndSanitizeUrl call ended ("none" while it runs)
  sanDns,       \* DNS lookups started by the running / last validateAndSanitizeUrl call
  sanitized,    \* URLs returned by validateAndSanitizeUrl in this request
  requested,    \* HTTP requests sent in this request: [method, url]
  nDns,         \* DNS lookups of this request
  nHead,        \* HEAD requests of this request
  nGet,         \* GET requests of this request
  conn,         \* the address the last answered HTTP request was connected to
  lastBody,     \* the body of the last GET: none (no response), whole, over (longer than the cap)
  outcome,      \* what analyzeWebsite gave its caller
  probe,        \* an address handed to the classifier on its own
  verdict,      \* what the classifier said of probe
  last,         \* the answer to the last HTTP request: [method, net, status, location]
  refused,      \* the content type a content-type check refused, "" when none did
  meta,         \* the HTMLMetaData parseMetaTags returned
  scored,       \* what calculateSEOScore returned: [score, issues, tags]
  prior,        \* what the call of calculateSEOScore before the last returned
  isAnalyzing,  \* state of the SEOAnalyzer page component
  result,       \* state of the component: the url of the report, NoText for null
  error,        \* state of the component: the message, "" for null
  cpc,          \* position of the component: idle, fetching
  nFetch        \* POST /api/analyze requests the component has started

pipelineVars == <<route, sent, pc, ctx, cand, url, ipv4Success, ipv6Success, v4ans, v6ans,
                  sanResult, sanDns, sanitized, requested, nDns, nHead, nGet, conn, lastBody,
                  outcome, last, refused>>

scorerVars == <<meta, scored, prior>>

clientVars == <<isAnalyzing, result, error, cpc, nFetch>>

vars == <<route, sent, pc, ctx, cand, url, ipv4Success, ipv6Success, v4ans, v6ans, sanResult,
          sanDns, sanitized, requested, nDns, nHead, nGet, conn, lastBody, outcome,
          probe, verdict, last, refused, scorerVars, clientVars>>

(***************************************************************************)
(* Text helpers                                                            *)
(***************************************************************************)
DIGITS == {"0", "1", "2", "3", "4", "5", "6", "7", "8", "9"}

HEXDIGITS == DIGITS \cup {"a", "b", "c", "d", "e", "f", "A", "B", "C", "D", "E", "F"}

DigitSeq == <<"0", "1", "2", "3", "4", "5", "6", "7", "8", "9">>

\* the character at position i of s, "" past the end
At(s, i) == IF i >= 1 /\ i <= Len(s) THEN s[i] ELSE ""

\* /^p/ for a literal p
StartsWith(s, p) == Len(s) >= Len(p) /\ SubSeq(s, 1, Len(p)) = p

\* s.split(sep)
RECURSIVE Split(_, _)
Split(s, sep) ==
  IF \A i \in 1..Len(s) : s[i] # sep
  THEN <<s>>
  ELSE LET i == CHOOSE k \in 1..Len(s) : s[k] = sep /\ \A j \in 1..(k - 1) : s[j] # sep
       IN  <<SubSeq(s, 1, i - 1)>> \o Split(SubSeq(s, i + 1, Len(s)), sep)

\* decimal text of a natural number
RECURSIVE Dec(_)
Dec(n) == IF n < 10 THEN <<DigitSeq[n + 1]>> ELSE Dec(n \div 10) \o <<DigitSeq[(n % 10) + 1]>>

DigitValue(c) == CHOOSE d \in 0..9 : DigitSeq[d + 1] = c

\* parseInt of a string of decimal digits
RECURSIVE parseInt(_)
parseInt(s) ==
  IF Len(s) = 1 THEN DigitValue(s[1])
  ELSE 10 * parseInt(SubSeq(s, 1, Len(s) - 1)) + DigitValue(s[Len(s)])

\* dotted-quad text of four octets, as the resolver and the URL parser give it
IPv4Text(o) == Dec(o[1]) \o <<".">> \o Dec(o[2]) \o <<".">> \o Dec(o[3]) \o <<".">> \o Dec(o[4])

(***************************************************************************)
(* IP classifier                                                           *)
(***************************************************************************)
\* CgnatOctet without its last alternative, 12[0-7]
CgnatOctetTo119(s, i) ==
  \/ At(s, i) = "6" /\ At(s, i + 1) \in {"4", "5", "6", "7", "8", "9"} /\ At(s, i + 2) = "."
  \/ At(s, i) \in {"7", "8", "9"} /\ At(s, i + 1) \in DIGITS /\ At(s, i + 2) = "."
  \/ At(s, i) = "1" /\ At(s, i + 1) \in {"0", "1"} /\ At(s, i + 2) \in DIGITS /\ At(s, i + 3) = "."

\* (6[4-9]|[7-9][0-9]|1[0-1][0-9]|12[0-7])\. at position i
CgnatOctet(s, i) ==
  \/ At(s, i) = "6" /\ At(s, i + 1) \in {"4", "5", "6", "7", "8", "9"} /\ At(s, i + 2) = "."
  \/ At(s, i) \in {"7", "8", "9"} /\ At(s, i + 1) \in DIGITS /\ At(s, i + 2) = "."
  \/ At(s, i) = "1" /\ At(s, i + 1) \in {"0", "1"} /\ At(s, i + 2) \in DIGITS /\ At(s, i + 3) = "."
  \/ At(s, i) = "1" /\ At(s, i + 1) = "2" /\ At(s, i + 2) \in {"0", "1", "2", "3", "4", "5", "6", "7"}
       /\ At(s, i + 3) = "."

\* (1[6-9]|2[0-9]|3[01])\. at position i
Private172Octet(s, i) ==
  \/ At(s, i) = "1" /\ At(s, i + 1) \in {"6", "7", "8", "9"} /\ At(s, i + 2) = "."
  \/ At(s, i) = "2" /\ At(s, i + 1) \in DIGITS /\ At(s, i + 2) = "."
  \/ At(s, i) = "3" /\ At(s, i + 1) \in {"0", "1"} /\ At(s, i + 2) = "."

MAPPED == <<":", ":", "f", "f", "f", "f", ":">>

\* BLOCKED_IP_RANGES without /^169\.254\./
BLOCKED_IP_RANGES_NoLinkLocal(ip) == <<
  StartsWith(ip, <<"0", ".">>),
  StartsWith(ip, <<"1", "0", ".">>),
  StartsWith(ip, <<"1", "0", "0", ".">>) /\ CgnatOctet(ip, 5),
  StartsWith(ip, <<"1", "2", "7", ".">>),
  StartsWith(ip, <<"1", "7", "2", ".">>) /\ Private172Octet(ip, 5),
  StartsWith(ip, <<"1", "9", "2", ".", "0", ".", "0", ".">>),
  StartsWith(ip, <<"1", "9", "2", ".", "1", "6", "8", ".">>),
  StartsWith(ip, <<"1", "9", "8", ".", "1">>) /\ At(ip, 6) \in {"8", "9"} /\ At(ip, 7) = ".",
  StartsWith(ip, <<"2", "2">>) /\ At(ip, 3) \in {"4", "5", "6", "7", "8", "9"} /\ At(ip, 4) = ".",
  At(ip, 1) = "2" /\ At(ip, 2) \in {"3", "4", "5"} /\ At(ip, 3) \in DIGITS /\ At(ip, 4) = ".",
  ip = <<"2", "5", "5", ".", "2", "5", "5", ".", "2", "5", "5", ".", "2", "5", "5">>,
  ip = <<":", ":", "1">>,
  StartsWith(ip, MAPPED \o <<"1", "2", "7", ".">>),
  StartsWith(ip, MAPPED \o <<"1", "0", ".">>),
  StartsWith(ip, MAPPED \o <<"1", "7", "2", ".">>) /\ Private172Octet(ip, 12),
  StartsWith(ip, MAPPED \o <<"1", "9", "2", ".", "1", "6", "8", ".">>),
  StartsWith(ip, <<"f", "c", "0", "0", ":">>),
  StartsWith(ip, <<"f", "d", "0", "0", ":">>),
  StartsWith(ip, <<"f", "e", "8", "0", ":">>)
>>

\* the patterns of BLOCKED_IP_RANGES, each tested against ip, in table order
BLOCKED_IP_RANGES(ip) == <<
  StartsWith(ip, <<"0", ".">>),
  StartsWith(ip, <<"1", "0", ".">>),
  StartsWith(ip, <<"1", "0", "0", ".">>) /\ CgnatOctet(ip, 5),
  StartsWith(ip, <<"1", "2", "7", ".">>),
  StartsWith(ip, <<"1", "6", "9", ".", "2", "5", "4", ".">>),
  StartsWith(ip, <<"1", "7", "2", ".">>) /\ Private172Octet(ip, 5),
  StartsWith(ip, <<"1", "9", "2", ".", "0", ".", "0", ".">>),
  StartsWith(ip, <<"1", "9", "2", ".", "1", "6", "8", ".">>),
  StartsWith(ip, <<"1", "9", "8", ".", "1">>) /\ At(ip, 6) \in {"8", "9"} /\ At(ip, 7) = ".",
  StartsWith(ip, <<"2", "2">>) /\ At(ip, 3) \in {"4", "5", "6", "7", "8", "9"} /\ At(ip, 4) = ".",
  At(ip, 1) = "2" /\ At(ip, 2) \in {"3", "4", "5"} /\ At(ip, 3) \in DIGITS /\ At(ip, 4) = ".",
  ip = <<"2", "5", "5", ".", "2", "5", "5", ".", "2", "5", "5", ".", "2", "5", "5">>,
  ip = <<":", ":", "1">>,
  StartsWith(ip, MAPPED \o <<"1", "2", "7", ".">>),
  StartsWith(ip, MAPPED \o <<"1", "0", ".">>),
  StartsWith(ip, MAPPED \o <<"1", "7", "2", ".">>) /\ Private172Octet(ip, 12),
  StartsWith(ip, MAPPED \o <<"1", "9", "2", ".", "1", "6", "8", ".">>),
  StartsWith(ip, <<"f", "c", "0", "0", ":">>),
  StartsWith(ip, <<"f", "d", "0", "0", ":">>),
  StartsWith(ip, <<"f", "e", "8", "0", ":">>)
>>

METADATA_IPS == {IPv4Text(<<169, 254, 169, 254>>),
                 IPv4Text(<<169, 254, 169, 123>>),
                 IPv4Text(<<100, 100, 100, 200>>)}

isBlockedIP(ip) == \E k \in DOMAIN BLOCKED_IP_RANGES(ip) : BLOCKED_IP_RANGES(ip)[k]

\* isIPAddress with the dotted-quad pattern left out
isIPAddressColonOnly(hostname) ==
  LET g == Split(hostname, ":")
  IN  /\ Len(g) \in 2..8
      /\ \A k \in 1..Len(g) : Len(g[k]) \in 0..4 /\ \A j \in 1..Len(g[k]) : g[k][j] \in HEXDIGITS

\* /^(?:\d{1,3}\.){3}\d{1,3}$/ or /^(?:[0-9a-fA-F]{0,4}:){1,7}[0-9a-fA-F]{0,4}$/
isIPAddress(hostname) ==
  \/ LET g == Split(hostname, ".")
     IN  /\ Len(g) = 4
         /\ \A k \in 1..4 : Len(g[k]) \in 1..3 /\ \A j \in 1..Len(g[k]) : g[k][j] \in DIGITS
  \/ LET g == Split(hostname, ":")
     IN  /\ Len(g) \in 2..8
         /\ \A k \in 1..Len(g) : Len(g[k]) \in 0..4 /\ \A j \in 1..Len(g[k]) : g[k][j] \in HEXDIGITS

(***************************************************************************)
(* URLs.  A URL string is kept in structured form; `port` is the text      *)
(* after the colon (empty when none is written).                           *)
(***************************************************************************)
NoText == <<>>

Malformed == [wellFormed |-> FALSE, scheme |-> "", port |-> NoText, host |-> NoText, path |-> ""]

\* the URL parser's default port of a scheme
DefaultPort(scheme) == CASE scheme = "http" -> 80 [] scheme = "https" -> 443 [] OTHER -> 21

\* new URL(u): protocol carries the colon, a port equal to the scheme's default is dropped
ParseURL(u) ==
  [protocol |-> u.scheme \o ":",
   port     |-> IF u.port # NoText /\ parseInt(u.port) = DefaultPort(u.scheme) THEN NoText ELSE u.port,
   hostname |-> u.host,
   pathname |-> u.path]

\* parsedUrl.toString()
toString(p) ==
  [wellFormed |-> TRUE,
   scheme     |-> CHOOSE s \in {"http", "https", "ftp"} : s \o ":" = p.protocol,
   port       |-> p.port,
   host       |-> p.hostname,
   path       |-> p.pathname]

ALLOWED_PORTS == {80, 443, 8080, 8443}

ALLOWED_PROTOCOLS == {"http:", "https:"}

\* EffectivePort that never reads the explicit port
EffectivePortDefaultOnly(p) == IF p.protocol = "https:" THEN 443 ELSE 80

\* parsedUrl.port ? parseInt(parsedUrl.port) : (parsedUrl.protocol === 'https:' ? 443 : 80)
EffectivePort(p) ==
  IF p.port # NoText THEN parseInt(p.port) ELSE IF p.protocol = "https:" THEN 443 ELSE 80

\* validateHostname for a hostname that is an IP literal: "ok" or the error thrown
ValidateLiteral(hostname) ==
  IF isBlockedIP(hostname) THEN "BlockedAddress"
  ELSE IF hostname \in METADATA_IPS THEN "MetadataBlocked"
  ELSE "ok"

\* SyncChecks without the protocol check
SyncChecksNoProtocol(u) ==
  IF ~u.wellFormed THEN "MalformedURL"
  ELSE LET p == ParseURL(u)
       IN  IF EffectivePort(p) \notin ALLOWED_PORTS THEN "PortNotAllowed"
           ELSE IF isIPAddress(p.hostname) THEN ValidateLiteral(p.hostname)
           ELSE "resolve"

\* SyncChecks with the port check ahead of the protocol check
SyncChecksPortFirst(u) ==
  IF ~u.wellFormed THEN "MalformedURL"
  ELSE LET p == ParseURL(u)
       IN  IF EffectivePort(p) \notin ALLOWED_PORTS THEN "PortNotAllowed"
           ELSE IF p.protocol \notin ALLOWED_PROTOCOLS THEN "ProtocolNotAllowed"
           ELSE IF isIPAddress(p.hostname) THEN ValidateLiteral(p.hostname)
           ELSE "resolve"

\* validateAndSanitizeUrl up to its first await: the error thrown, "ok" when it
\* returns without suspending, "resolve" when it suspends in dnsResolve4
SyncChecks(u) ==
  IF ~u.wellFormed THEN "MalformedURL"
  ELSE LET p == ParseURL(u)
       IN  IF p.protocol \notin ALLOWED_PROTOCOLS THEN "ProtocolNotAllowed"
           ELSE IF EffectivePort(p) \notin ALLOWED_PORTS THEN "PortNotAllowed"
           ELSE IF isIPAddress(p.hostname) THEN ValidateLiteral(p.hostname)
           ELSE "resolve"

(***************************************************************************)
(* DNS answers                                                             *)
(***************************************************************************)
Unasked == [status |-> "unasked", addrs |-> <<>>]

DnsError == [status |-> "error", addrs |-> <<>>]

Answer(addrs) == [status |-> "ok", addrs |-> addrs]

PUBLIC4 == IPv4Text(<<8, 8, 8, 8>>)

LOOPBACK4 == IPv4Text(<<127, 0, 0, 1>>)

METADATA4 == IPv4Text(<<169, 254, 169, 254>>)

PUBLIC6 == <<"2", "a", "0", "0", ":", ":", "1">>

LOOPBACK6 == <<":", ":", "1">>

\* what dnsResolve4 may give
V4Answers == {DnsError, Answer(<<>>), Answer(<<PUBLIC4>>), Answer(<<LOOPBACK4>>),
              Answer(<<PUBLIC4, LOOPBACK4>>), Answer(<<METADATA4>>)}

\* what dnsResolve6 may give
V6Answers == {DnsError, Answer(<<>>), Answer(<<PUBLIC6>>), Answer(<<LOOPBACK6>>),
              Answer(<<PUBLIC6, LOOPBACK6>>)}

\* the IPv4 try block: true when it reaches `ipv4Success = true`; an error
\* thrown inside it (by the resolver or by the loop) lands in its own catch
Ipv4Block(a) ==
  /\ a.status = "ok"
  /\ \A k \in DOMAIN a.addrs : ~isBlockedIP(a.addrs[k]) /\ a.addrs[k] \notin METADATA_IPS

\* the IPv6 try block, likewise
Ipv6Block(a) ==
  /\ a.status = "ok"
  /\ \A k \in DOMAIN a.addrs : ~isBlockedIP(a.addrs[k])

\* "Require at least one successful resolution"
ResolutionGate(s4, s6) == IF ~s4 /\ ~s6 THEN "ResolutionFailure" ELSE "ok"

(***************************************************************************)
(* Inputs of a request and answers of the remote servers                   *)
(***************************************************************************)
MaxGets == 3

HostA == <<"a", ".", "i", "o">>

HostB == <<"b", ".", "i", "o">>

Url(scheme, port, host, path) ==
  [wellFormed |-> TRUE, scheme |-> scheme, port |-> port, host |-> host, path |-> path]

PortTexts == {NoText} \cup {Dec(n) : n \in {80, 443, 8080, 8443, 22}}

InputHosts == {PUBLIC4, LOOPBACK4, HostA} \cup METADATA_IPS

\* the url argument of analyzeWebsite
Inputs ==
  {Malformed} \cup
  {u \in {Url(s, p, h, q) : s \in {"http", "https", "ftp"}, p \in PortTexts,
                            h \in InputHosts, q \in {"/", "/latest/meta-data/"}} :
     u.path = "/" \/ u.host \in METADATA_IPS}

\* a Location header: absent, a path, an absolute URL, or text no URL parser accepts
NoLocation == [kind |-> "none", target |-> Malformed]

Locations ==
  {NoLocation, [kind |-> "relative", target |-> Malformed], [kind |-> "invalid", target |-> Malformed]}
  \cup {[kind |-> "absolute", target |-> t] :
          t \in {Url("http", NoText, LOOPBACK4, "/"), Url("http", NoText, HostB, "/"),
                 Url("http", NoText, METADATA4, "/latest/meta-data/"),
                 Url("http", Dec(80), HostA, "/"), Url("ftp", NoText, HostB, "/"),
                 Url("https", Dec(22), HostB, "/")}}

\* new URL(location, url).toString(); Malformed stands for the TypeError it throws
ResolveLocation(loc, base) ==
  CASE loc.kind = "relative" -> toString(ParseURL([base EXCEPT !.path = "/next"]))
    [] loc.kind = "absolute" -> toString(ParseURL(loc.target))
    [] OTHER -> Malformed

MAX_CONTENT_LENGTH == 10 * 1024 * 1024

ContentTypes == {"", "text/html", "text/html; charset=utf-8", "application/xhtml+xml", "application/pdf"}

\* contentType.includes('text/html')
IncludesTextHtml(ct) == ct \in {"text/html", "text/html; charset=utf-8"}

\* contentType.includes('application/xhtml+xml')
IncludesXhtml(ct) == ct = "application/xhtml+xml"

\* a Content-Length header: absent, or a number
ContentLengths == {[present |-> FALSE, value |-> 0], [present |-> TRUE, value |-> MAX_CONTENT_LENGTH],
                   [present |-> TRUE, value |-> MAX_CONTENT_LENGTH + 1]}

\* error codes of a request that got no response
NetErrors == {"ENOTFOUND", "ECONNREFUSED", "ETIMEDOUT", "ECONNABORTED"}

NoResponse(code) ==
  [net |-> code, status |-> 0, ctype |-> "", clen |-> [present |-> FALSE, value |-> 0],
   location |-> NoLocation, big |-> FALSE]

\* what a HEAD may come back with
HeadResponses ==
  {NoResponse(c) : c \in NetErrors} \cup
  [net : {"ok"}, status : {200, 301, 404, 405, 500}, ctype : ContentTypes, clen : ContentLengths,
   location : {NoLocation}, big : {FALSE}]

\* what a GET may come back with; big: the body is longer than MAX_CONTENT_LENGTH
GetResponses ==
  {NoResponse(c) : c \in NetErrors} \cup
  [net : {"ok"}, status : {200, 302}, ctype : ContentTypes,
   clen : {[present |-> FALSE, value |-> 0]}, location : Locations, big : BOOLEAN] \cup
  [net : {"ok"}, status : {403, 404, 500}, ctype : {"text/html"},
   clen : {[present |-> FALSE, value |-> 0]}, location : {NoLocation}, big : BOOLEAN]

\* what is kept of the answer to a request: the error code or the status, and
\* whether the response has a Location header
NoLast == [method |-> "none", net |-> "", status |-> 0, location |-> FALSE]

Answered(method, r) ==
  [method |-> method, net |-> r.net, status |-> r.status, location |-> r.location.kind # "none"]

Pending == [status |-> "pending", kind |-> "", wrapped |-> FALSE]

Report == [status |-> "report", kind |-> "", wrapped |-> FALSE]

\* wrapped: the message is 'Failed to fetch website: ' followed by the original one
Failure(kind, wrapped) == [status |-> "error", kind |-> kind, wrapped |-> wrapped]

(***************************************************************************)
(* Metadata and scorer                                                     *)
(***************************************************************************)
\* text of n characters
Fill(n) == [i \in 1..n |-> "x"]

\* String.prototype.trim
RECURSIVE trim(_)
trim(s) ==
  IF s # NoText /\ s[1] = " " THEN trim(Tail(s))
  ELSE IF s # NoText /\ s[Len(s)] = " " THEN trim(SubSeq(s, 1, Len(s) - 1))
  ELSE s

\* the fields of HTMLMetaData that calculateSEOScore reads
MetaFields ==
  {"title", "description", "robots", "viewport", "canonical", "ogTitle", "ogDescription", "ogImage"}

\* what a document holds for each field: the text of the element or attribute,
\* NoText when the document has none
Page(title, description, ogTitle, ogDescription, ogImage, canonical, viewport, robots) ==
  [title |-> title, description |-> description, robots |-> robots, viewport |-> viewport,
   canonical |-> canonical, ogTitle |-> ogTitle, ogDescription |-> ogDescription,
   ogImage |-> ogImage]

NoMeta == Page(NoText, NoText, NoText, NoText, NoText, NoText, NoText, NoText)

\* parseMetaTags: each field trimmed, undefined (NoText) when nothing is left
ParseMetaTags(doc) == [f \in MetaFields |-> trim(doc[f])]

Content == <<"c">>

Blank == <<" ", " ">>

\* the documents a server may send: a 45-character title (written with spaces
\* around it), no description, complete Open Graph tags, a viewport and no
\* canonical; a page with og:title but no og:description; a page of blank tags
Documents ==
  {Page(<<" ">> \o Fill(45) \o <<" ">>, NoText, Content, Content, Content, NoText, Content, NoText),
   Page(Fill(61), Fill(120), Content, NoText, NoText, Content, NoText, Content),
   Page(Blank, Blank, Blank, Blank, Blank, Blank, Blank, Blank)}

NoScore == [score |-> 0 - 1, issues |-> <<>>, tags |-> <<>>]

\* FreshLocals of a scorer that keeps score, issues and tags from call to call
StaleLocals == IF scored = NoScore THEN [score |-> 100, issues |-> <<>>, tags |-> <<>>] ELSE scored

\* the locals of calculateSEOScore as it declares them
FreshLocals == [score |-> 100, issues |-> <<>>, tags |-> <<>>]

\* an entry of issues; chars: the length the message quotes, 0 when it quotes none
Issue(type, message, chars) == [type |-> type, message |-> message, chars |-> chars]

\* an entry of tags; every entry but a good one carries a recommendation
Tag(name, content, status) ==
  [name |-> name, content |-> content, status |-> status, recommendation |-> status # "good"]

\* score -= penalty, issues.push(...), tags.push(...)
Apply(l, penalty, newIssues, newTags) ==
  [score |-> l.score - penalty, issues |-> l.issues \o newIssues, tags |-> l.tags \o newTags]

\* TitleCheck that adds the penalties of the title to the score
TitleCheckAdding(l, m) ==
  IF m.title # NoText
  THEN IF Len(m.title) < 30
       THEN Apply(l, 0 - 15, <<Issue("warning", "Title too short", Len(m.title))>>,
                  <<Tag("title", m.title, "warning")>>)
       ELSE IF Len(m.title) > 60
       THEN Apply(l, 0 - 10, <<Issue("warning", "Title too long", Len(m.title))>>,
                  <<Tag("title", m.title, "warning")>>)
       ELSE Apply(l, 0, <<Issue("success", "Title tag length is optimal", 0)>>,
                  <<Tag("title", m.title, "good")>>)
  ELSE Apply(l, 0 - 25, <<Issue("error", "Missing title tag", 0)>>, <<Tag("title", NoText, "missing")>>)

TitleCheck(l, m) ==
  IF m.title # NoText
  THEN IF Len(m.title) < 30
       THEN Apply(l, 15, <<Issue("warning", "Title too short", Len(m.title))>>,
                  <<Tag("title", m.title, "warning")>>)
       ELSE IF Len(m.title) > 60
       THEN Apply(l, 10, <<Issue("warning", "Title too long", Len(m.title))>>,
                  <<Tag("title", m.title, "warning")>>)
       ELSE Apply(l, 0, <<Issue("success", "Title tag length is optimal", 0)>>,
                  <<Tag("title", m.title, "good")>>)
  ELSE Apply(l, 25, <<Issue("error", "Missing title tag", 0)>>, <<Tag("title", NoText, "missing")>>)

DescriptionCheck(l, m) ==
  IF m.description # NoText
  THEN IF Len(m.description) < 120
       THEN Apply(l, 10, <<Issue("warning", "Meta description too short", Len(m.description))>>,
                  <<Tag("description", m.description, "warning")>>)
       ELSE IF Len(m.description) > 160
       THEN Apply(l, 8, <<Issue("warning", "Meta description too long", Len(m.description))>>,
                  <<Tag("description", m.description, "warning")>>)
       ELSE Apply(l, 0, <<Issue("success", "Meta description length is optimal", 0)>>,
                  <<Tag("description", m.description, "good")>>)
  ELSE Apply(l, 20, <<Issue("error", "Missing meta description", 0)>>,
             <<Tag("description", NoText, "missing")>>)

\* OpenGraphCheck that is content with either of the two tags
OpenGraphCheckEither(l, m) ==
  IF m.ogTitle # NoText \/ m.ogDescription # NoText
  THEN Apply(l, 0, <<Issue("success", "Open Graph tags configured", 0)>>,
             <<Tag("og:title", m.ogTitle, "good"), Tag("og:description", m.ogDescription, "good")>>)
  ELSE Apply(l, 15, <<Issue("warning", "Incomplete Open Graph tags", 0)>>,
             <<Tag("og:title", NoText, "missing"), Tag("og:description", NoText, "missing")>>)

OpenGraphCheck(l, m) ==
  IF m.ogTitle # NoText /\ m.ogDescription # NoText
  THEN Apply(l, 0, <<Issue("success", "Open Graph tags configured", 0)>>,
             <<Tag("og:title", m.ogTitle, "good"), Tag("og:description", m.ogDescription, "good")>>)
  ELSE Apply(l, 15, <<Issue("warning", "Incomplete Open Graph tags", 0)>>,
             (IF m.ogTitle = NoText THEN <<Tag("og:title", NoText, "missing")>> ELSE <<>>)
             \o (IF m.ogDescription = NoText THEN <<Tag("og:description", NoText, "missing")>> ELSE <<>>))

OgImageCheck(l, m) ==
  IF m.ogImage # NoText
  THEN Apply(l, 0, <<>>, <<Tag("og:image", m.ogImage, "good")>>)
  ELSE Apply(l, 10, <<Issue("warning", "Missing Open Graph image", 0)>>,
             <<Tag("og:image", NoText, "missing")>>)

CanonicalCheck(l, m) ==
  IF m.canonical # NoText
  THEN Apply(l, 0, <<Issue("success", "Canonical URL specified", 0)>>,
             <<Tag("canonical", m.canonical, "good")>>)
  ELSE Apply(l, 8, <<Issue("warning", "Missing canonical URL", 0)>>,
             <<Tag("canonical", NoText, "missing")>>)

ViewportCheck(l, m) ==
  IF m.viewport # NoText
  THEN Apply(l, 0, <<>>, <<Tag("viewport", m.viewport, "good")>>)
  ELSE Apply(l, 5, <<Issue("warning", "Missing viewport meta tag", 0)>>,
             <<Tag("viewport", NoText, "missing")>>)

RobotsCheck(l, m) ==
  IF m.robots # NoText
  THEN Apply(l, 0, <<>>, <<Tag("robots", m.robots, "good")>>)
  ELSE Apply(l, 0, <<>>, <<Tag("robots", NoText, "missing")>>)

\* Math.max(0, score)
Max0(n) == IF n > 0 THEN n ELSE 0

\* calculateSEOScore from its locals l on the metadata m
SEOScoreFrom(l, m) ==
  LET r == RobotsCheck(ViewportCheck(CanonicalCheck(OgImageCheck(OpenGraphCheck(
             DescriptionCheck(TitleCheck(l, m), m), m), m), m), m), m)
  IN  [r EXCEPT !.score = Max0(r.score)]

(***************************************************************************)
(* The request                                                             *)
(***************************************************************************)
\* the state in which POST /api/analyze has received a body whose url is u
Start(u) ==
  /\ route = "validate"
  /\ sent = <<>>
  /\ pc = "sanitize"
  /\ ctx = "initial"
  /\ cand = u
  /\ url = Malformed
  /\ ipv4Success = FALSE
  /\ ipv6Success = FALSE
  /\ v4ans = Unasked
  /\ v6ans = Unasked
  /\ sanResult = "none"
  /\ sanDns = 0
  /\ sanitized = {}
  /\ requested = {}
  /\ nDns = 0
  /\ nHead = 0
  /\ nGet = 0
  /\ conn = NoText
  /\ lastBody = "none"
  /\ outcome = Pending
  /\ last = NoLast
  /\ refused = ""

\* no document has been parsed or scored
NoScoring == meta = NoMeta /\ scored = NoScore /\ prior = NoScore

\* the page component as it is mounted, with nothing asked of it
NoClient == isAnalyzing = FALSE /\ result = NoText /\ error = "" /\ cpc = "idle" /\ nFetch = 0

Init ==
  /\ \E u \in Inputs : Start(u)
  /\ probe = NoText
  /\ verdict = "unknown"
  /\ NoScoring
  /\ NoClient

\* seoAnalysisRequestSchema.safeParse: a URL the parser accepts is accepted; what
\* the schema library says of other text is left open
SchemaVerdicts(u) == IF u.wellFormed THEN {TRUE} ELSE {TRUE, FALSE}

BadRequest == [code |-> 400, report |-> FALSE, error |-> "Invalid request", message |-> FALSE]

\* RouteResponse that sends what there is of the report along with the error
RouteResponsePartial(o) ==
  IF o.status = "report"
  THEN [code |-> 200, report |-> TRUE, error |-> "", message |-> FALSE]
  ELSE [code |-> 500, report |-> TRUE, error |-> "Analysis failed", message |-> TRUE]

\* the response of the handler once analyzeWebsite has settled
RouteResponse(o) ==
  IF o.status = "report"
  THEN [code |-> 200, report |-> TRUE, error |-> "", message |-> FALSE]
  ELSE [code |-> 500, report |-> FALSE, error |-> "Analysis failed", message |-> TRUE]

\* the handler validates the body, answers 400 or calls analyzeWebsite
postAnalyze ==
  /\ route = "validate"
  /\ \E ok \in SchemaVerdicts(cand) :
       IF ok
       THEN route' = "await" /\ sent' = sent
       ELSE route' = "responded" /\ sent' = Append(sent, BadRequest)
  /\ UNCHANGED <<pc, ctx, cand, url, ipv4Success, ipv6Success, v4ans, v6ans, sanResult,
                 sanDns, sanitized, requested, nDns, nHead, nGet, conn, lastBody, outcome,
                 probe, verdict, last, refused, scorerVars, clientVars>>

\* the handler answers once analyzeWebsite has returned or thrown
respond ==
  /\ route = "await"
  /\ pc = "done"
  /\ sent' = Append(sent, RouteResponse(outcome))
  /\ route' = "responded"
  /\ UNCHANGED <<pc, ctx, cand, url, ipv4Success, ipv6Success, v4ans, v6ans, sanResult,
                 sanDns, sanitized, requested, nDns, nHead, nGet, conn, lastBody, outcome,
                 probe, verdict, last, refused, scorerVars, clientVars>>

\* validateAndSanitizeUrl throws: analyzeWebsite rethrows it as it is, the catch
\* of fetchHTML (no axios error) rethrows it with its prefix
Throw(kind) ==
  /\ sanResult' = kind
  /\ pc' = "done"
  /\ outcome' = Failure(kind, ctx = "redirect")
  /\ UNCHANGED <<url, sanitized>>

\* Return that goes on to preflightCheck from either call site
ReturnToPreflight(validated) ==
  /\ sanResult' = "ok"
  /\ sanitized' = sanitized \cup {validated}
  /\ url' = validated
  /\ pc' = "preflight"
  /\ UNCHANGED outcome

\* Return that goes on to fetchHTML from either call site
ReturnToFetch(validated) ==
  /\ sanResult' = "ok"
  /\ sanitized' = sanitized \cup {validated}
  /\ url' = validated
  /\ pc' = "fetch"
  /\ UNCHANGED outcome

\* validateAndSanitizeUrl returns parsedUrl.toString(): preflightCheck is next
\* in analyzeWebsite, the recursive fetchHTML in fetchHTML
Return(validated) ==
  /\ sanResult' = "ok"
  /\ sanitized' = sanitized \cup {validated}
  /\ url' = validated
  /\ pc' = IF ctx = "initial" THEN "preflight" ELSE "fetch"
  /\ UNCHANGED outcome

\* validateAndSanitizeUrl from its call to its first await
validateAndSanitizeUrl ==
  /\ route = "await"
  /\ pc = "sanitize"
  /\ LET r == SyncChecks(cand)
     IN  CASE r = "resolve" -> /\ pc' = "resolve4"
                               /\ UNCHANGED <<sanResult, url, sanitized, outcome>>
           [] r = "ok"      -> Return(toString(ParseURL(cand)))
           [] OTHER         -> Throw(r)
  /\ ipv4Success' = FALSE
  /\ ipv6Success' = FALSE
  /\ UNCHANGED <<route, sent, ctx, cand, v4ans, v6ans, sanDns, requested, nDns, nHead, nGet,
                 conn, lastBody, probe, verdict, last, refused, scorerVars, clientVars>>

\* the next value of a counter that is kept up to max
Sat(n, max) == IF n < max THEN n + 1 ELSE n

\* validateHostname: dnsResolve4 settles, the IPv4 block runs; n: the lookups then made
Resolve4Step(n) ==
  /\ pc = "resolve4"
  /\ \E a \in V4Answers :
       /\ v4ans' = a
       /\ ipv4Success' = Ipv4Block(a)
  /\ pc' = "resolve6"
  /\ nDns' = n
  /\ sanDns' = sanDns + 1
  /\ UNCHANGED <<route, sent, ctx, cand, url, ipv6Success, v6ans, sanResult, sanitized,
                 requested, nHead, nGet, conn, lastBody, outcome, probe, verdict, last, refused, scorerVars, clientVars>>

resolve4 == Resolve4Step(nDns + 1)

\* validateHostname: dnsResolve6 settles, the IPv6 block and the gate run, and
\* validateAndSanitizeUrl returns or throws; n: the lookups then made
Resolve6Step(n) ==
  /\ pc = "resolve6"
  /\ \E a \in V6Answers :
       /\ v6ans' = a
       /\ ipv6Success' = Ipv6Block(a)
       /\ LET g == ResolutionGate(ipv4Success, Ipv6Block(a))
          IN  IF g = "ok" THEN Return(toString(ParseURL(cand))) ELSE Throw(g)
  /\ nDns' = n
  /\ sanDns' = sanDns + 1
  /\ UNCHANGED <<route, sent, ctx, cand, ipv4Success, v4ans, requested, nHead, nGet,
                 conn, lastBody, probe, verdict, last, refused, scorerVars, clientVars>>

resolve6 == Resolve6Step(nDns + 1)

\* ConnectAddrs of a client that is handed the addresses the validation saw
ConnectAddrsPinned(host) ==
  IF isIPAddress(host)
  THEN {host}
  ELSE {v4ans.addrs[k] : k \in DOMAIN v4ans.addrs} \cup {v6ans.addrs[k] : k \in DOMAIN v6ans.addrs}

\* the addresses the HTTP client may connect to for a host: the literal itself,
\* else whatever its own lookup of the name answers at that moment
ConnectAddrs(host) == IF isIPAddress(host) THEN {host} ELSE {PUBLIC4, LOOPBACK4}

\* PreflightResult that makes no exception of status 405
PreflightResultNo405(r) ==
  IF r.net # "ok" THEN (IF r.net \in {"ETIMEDOUT", "ECONNABORTED"} THEN "Timeout" ELSE "NetworkError")
  ELSE IF r.status >= 400 THEN "HttpError"
  ELSE IF r.ctype # "" /\ ~IncludesTextHtml(r.ctype) THEN "UnsupportedContentType"
  ELSE IF r.clen.present /\ r.clen.value > MAX_CONTENT_LENGTH THEN "ContentTooLarge"
  ELSE "ok"

\* preflightCheck on the response of the HEAD: "ok" when it returns, else the error
PreflightResult(r) ==
  IF r.net # "ok" THEN (IF r.net \in {"ETIMEDOUT", "ECONNABORTED"} THEN "Timeout" ELSE "NetworkError")
  ELSE IF r.status >= 400 THEN (IF r.status = 405 THEN "ok" ELSE "HttpError")
  ELSE IF r.ctype # "" /\ ~IncludesTextHtml(r.ctype) THEN "UnsupportedContentType"
  ELSE IF r.clen.present /\ r.clen.value > MAX_CONTENT_LENGTH THEN "ContentTooLarge"
  ELSE "ok"

\* preflightCheck: one HEAD to the validated URL
preflightCheck ==
  /\ pc = "preflight"
  /\ requested' = requested \cup {[method |-> "HEAD", url |-> url]}
  /\ nHead' = nHead + 1
  /\ \E r \in HeadResponses, a \in ConnectAddrs(url.host) :
       /\ conn' = IF r.net = "ok" THEN a ELSE conn
       /\ last' = Answered("HEAD", r)
       /\ LET k == PreflightResult(r)
          IN  /\ refused' = IF k = "UnsupportedContentType" THEN r.ctype ELSE refused
              /\ IF k = "ok"
                 THEN pc' = "fetch" /\ UNCHANGED outcome
                 ELSE pc' = "done" /\ outcome' = Failure(k, FALSE)
  /\ UNCHANGED <<route, sent, ctx, cand, url, ipv4Success, ipv6Success, v4ans, v6ans,
                 sanResult, sanDns, sanitized, nDns, nGet, lastBody, probe, verdict,
                 scorerVars, clientVars>>

\* FetchResult that takes a 3xx answer without Location for a failed redirect
FetchResultLocationRequired(r) ==
  IF r.net \in {"ENOTFOUND", "ECONNREFUSED"} THEN Failure("NetworkError", FALSE)
  ELSE IF r.net = "ETIMEDOUT" THEN Failure("Timeout", FALSE)
  ELSE IF r.net # "ok" THEN Failure("Timeout", TRUE)
  ELSE IF r.big THEN Failure("ContentTooLarge", TRUE)
  ELSE IF r.status >= 400 THEN Failure("HttpError", r.status \notin {403, 404})
  ELSE IF r.status >= 300 /\ r.status < 400
       THEN IF r.location.kind # "none"
            THEN [status |-> "redirect", kind |-> "", wrapped |-> FALSE]
            ELSE Failure("HttpError", TRUE)
  ELSE IF r.ctype # "" /\ ~IncludesTextHtml(r.ctype) /\ ~IncludesXhtml(r.ctype)
       THEN Failure("UnsupportedContentType", TRUE)
  ELSE Report

\* FetchResult of a GET sent without maxContentLength
FetchResultNoCap(r) ==
  IF r.net \in {"ENOTFOUND", "ECONNREFUSED"} THEN Failure("NetworkError", FALSE)
  ELSE IF r.net = "ETIMEDOUT" THEN Failure("Timeout", FALSE)
  ELSE IF r.net # "ok" THEN Failure("Timeout", TRUE)
  ELSE IF r.status >= 400 THEN Failure("HttpError", r.status \notin {403, 404})
  ELSE IF r.status >= 300 /\ r.status < 400 /\ r.location.kind # "none"
       THEN [status |-> "redirect", kind |-> "", wrapped |-> FALSE]
  ELSE IF r.ctype # "" /\ ~IncludesTextHtml(r.ctype) /\ ~IncludesXhtml(r.ctype)
       THEN Failure("UnsupportedContentType", TRUE)
  ELSE Report

\* fetchHTML on the response of the GET: the document is returned ("report"),
\* the Location is followed ("redirect"), or the error its catch block throws
FetchResult(r) ==
  IF r.net \in {"ENOTFOUND", "ECONNREFUSED"} THEN Failure("NetworkError", FALSE)
  ELSE IF r.net = "ETIMEDOUT" THEN Failure("Timeout", FALSE)
  ELSE IF r.net # "ok" THEN Failure("Timeout", TRUE)
  ELSE IF r.big THEN Failure("ContentTooLarge", TRUE)
  ELSE IF r.status >= 400 THEN Failure("HttpError", r.status \notin {403, 404})
  ELSE IF r.status >= 300 /\ r.status < 400 /\ r.location.kind # "none"
       THEN [status |-> "redirect", kind |-> "", wrapped |-> FALSE]
  ELSE IF r.ctype # "" /\ ~IncludesTextHtml(r.ctype) /\ ~IncludesXhtml(r.ctype)
       THEN Failure("UnsupportedContentType", TRUE)
  ELSE Report

\* FollowRedirect that requests the target without validating it
FollowRedirectUnvalidated(target) ==
  /\ url' = target
  /\ pc' = "fetch"
  /\ UNCHANGED <<cand, ctx, sanResult, sanDns, outcome>>

\* the redirect branch of fetchHTML: the target is handed to validateAndSanitizeUrl
FollowRedirect(target) ==
  /\ cand' = target
  /\ ctx' = "redirect"
  /\ pc' = "sanitize"
  /\ sanResult' = "none"
  /\ sanDns' = 0
  /\ UNCHANGED <<url, outcome>>

\* Settle that sends the GET again after a network error
SettleRetry(f) ==
  /\ IF f.status = "report"
     THEN pc' = "parse" /\ UNCHANGED outcome
     ELSE IF f.kind = "NetworkError"
     THEN pc' = "fetch" /\ UNCHANGED outcome
     ELSE pc' = "done" /\ outcome' = f
  /\ UNCHANGED <<cand, ctx, url, sanResult, sanDns>>

\* fetchHTML ends: it throws f, or returns the document to analyzeWebsite
Settle(f) ==
  /\ IF f.status = "report"
     THEN pc' = "parse" /\ UNCHANGED outcome
     ELSE pc' = "done" /\ outcome' = f
  /\ UNCHANGED <<cand, ctx, url, sanResult, sanDns>>

\* fetchHTML: one GET to its argument; n: the GETs then sent
FetchStep(n) ==
  /\ pc = "fetch"
  /\ requested' = requested \cup {[method |-> "GET", url |-> url]}
  /\ nGet' = n
  /\ \E r \in GetResponses, a \in ConnectAddrs(url.host) :
       /\ conn' = IF r.net = "ok" THEN a ELSE conn
       /\ lastBody' = IF r.net # "ok" THEN "none" ELSE IF r.big THEN "over" ELSE "whole"
       /\ last' = Answered("GET", r)
       /\ LET f == FetchResult(r)
              target == ResolveLocation(r.location, url)
          IN  /\ refused' = IF f.kind = "UnsupportedContentType" THEN r.ctype ELSE refused
              /\ IF f.status = "redirect"
                 THEN IF target.wellFormed
                      THEN FollowRedirect(target)
                      ELSE Settle(Failure("MalformedURL", TRUE))
                 ELSE Settle(f)
  /\ ipv4Success' = FALSE
  /\ ipv6Success' = FALSE
  /\ v4ans' = Unasked
  /\ v6ans' = Unasked
  /\ UNCHANGED <<route, sent, sanitized, nDns, nHead, probe, verdict, scorerVars, clientVars>>

fetchHTML == nGet < MaxGets /\ FetchStep(nGet + 1)

\* analyzeWebsite: parseMetaTags on the document that fetchHTML returned
parseMetaTags ==
  /\ pc = "parse"
  /\ pc' = "score"
  /\ \E doc \in Documents : meta' = ParseMetaTags(doc)
  /\ UNCHANGED <<route, sent, ctx, cand, url, ipv4Success, ipv6Success, v4ans, v6ans, sanResult,
                 sanDns, sanitized, requested, nDns, nHead, nGet, conn, lastBody, outcome,
                 probe, verdict, last, refused, scored, prior, clientVars>>

\* analyzeWebsite: calculateSEOScore, and the report is returned
calculateSEOScore ==
  /\ pc = "score"
  /\ pc' = "done"
  /\ scored' = SEOScoreFrom(FreshLocals, meta)
  /\ outcome' = Report
  /\ UNCHANGED <<route, sent, ctx, cand, url, ipv4Success, ipv6Success, v4ans, v6ans, sanResult,
                 sanDns, sanitized, requested, nDns, nHead, nGet, conn, lastBody,
                 probe, verdict, last, refused, meta, prior, clientVars>>

Next ==
  \/ postAnalyze
  \/ validateAndSanitizeUrl
  \/ resolve4
  \/ resolve6
  \/ preflightCheck
  \/ fetchHTML
  \/ parseMetaTags
  \/ calculateSEOScore
  \/ respond

Spec == Init /\ [][Next]_vars

(***************************************************************************)
(* The request with nothing cut off: the counters stop counting at their   *)
(* maximum instead of stopping the request, and every step that can be     *)
(* taken is taken in the end (each awaited call settles: the HTTP calls    *)
(* carry a timeout, the event loop runs every continuation)                *)
(***************************************************************************)
LiveInputs ==
  {Malformed, Url("http", NoText, HostA, "/"), Url("http", NoText, LOOPBACK4, "/")}

LiveInit ==
  /\ \E u \in LiveInputs : Start(u)
  /\ probe = NoText
  /\ verdict = "unknown"
  /\ NoScoring
  /\ NoClient

resolve4Sat == Resolve4Step(Sat(nDns, 2 * MaxGets))

resolve6Sat == Resolve6Step(Sat(nDns, 2 * MaxGets))

fetchHTMLSat == FetchStep(Sat(nGet, MaxGets))

LiveNext ==
  \/ postAnalyze
  \/ validateAndSanitizeUrl
  \/ resolve4Sat
  \/ resolve6Sat
  \/ preflightCheck
  \/ fetchHTMLSat
  \/ parseMetaTags
  \/ calculateSEOScore
  \/ respond

LiveSpec == LiveInit /\ [][LiveNext]_vars /\ WF_vars(LiveNext)

(***************************************************************************)
(* The classifier on its own                                               *)
(***************************************************************************)
FirstOctets == {0, 1, 9, 10, 11, 99, 100, 101, 126, 127, 128, 169, 172, 192, 198, 223, 224, 239, 255}

SecondOctets == {0, 1, 15, 16, 17, 18, 19, 20, 31, 32, 63, 64, 100, 127, 128, 168, 254, 255}

LastOctets == {0, 1, 255}

\* IPv4 addresses on and around the borders of the table
Probes4 ==
  {IPv4Text(<<a, b, c, d>>) : a \in FirstOctets, b \in SecondOctets, c \in LastOctets, d \in LastOctets}

\* text of the hextets fc00, fc12, fd00, fd12, fe80, fe90, febf, fec0
FirstHextets ==
  {<<"f", "c", "0", "0">>, <<"f", "c", "1", "2">>, <<"f", "d", "0", "0">>, <<"f", "d", "1", "2">>,
   <<"f", "e", "8", "0">>, <<"f", "e", "9", "0">>, <<"f", "e", "b", "f">>, <<"f", "e", "c", "0">>}

\* IPv6 addresses as the resolver writes them: x::1, x:3456::1, ::1, 2a00::1, ::ffff:a.b.c.d
Probes6 ==
  {h \o <<":", ":", "1">> : h \in FirstHextets}
  \cup {h \o <<":", "3", "4", "5", "6", ":", ":", "1">> : h \in FirstHextets}
  \cup {LOOPBACK6, PUBLIC6}
  \cup {MAPPED \o IPv4Text(<<a, b, 0, 1>>) : a \in FirstOctets, b \in SecondOctets}

ClassifierInit ==
  /\ Start(Malformed)
  /\ probe \in Probes4 \cup Probes6
  /\ verdict = "unknown"
  /\ NoScoring
  /\ NoClient

\* isBlockedIP is applied to the address
classify ==
  /\ verdict = "unknown"
  /\ verdict' = IF isBlockedIP(probe) THEN "blocked" ELSE "allowed"
  /\ UNCHANGED <<route, sent, pc, ctx, cand, url, ipv4Success, ipv6Success, v4ans, v6ans,
                 sanResult, sanDns, sanitized, requested, nDns, nHead, nGet, conn, lastBody,
                 outcome, probe, last, refused, scorerVars, clientVars>>

ClassifierNext == classify

ClassifierSpec == ClassifierInit /\ [][ClassifierNext]_vars

(***************************************************************************)
(* The scorer on its own: one metadata record, scored twice                *)
(***************************************************************************)
TitleLengths == {0, 1, 29, 30, 45, 60, 61}

DescriptionLengths == {0, 119, 120, 140, 160, 161}

MetaRecords ==
  {Page(Fill(t), Fill(d), ot, od, oi, ca, vp, rb) :
     t \in TitleLengths, d \in DescriptionLengths, ot \in {NoText, Content},
     od \in {NoText, Content}, oi \in {NoText, Content}, ca \in {NoText, Content},
     vp \in {NoText, Content}, rb \in {NoText, Content}}

ScorerInit ==
  /\ Start(Malformed)
  /\ probe = NoText
  /\ verdict = "unknown"
  /\ NoClient
  /\ meta \in MetaRecords
  /\ scored = NoScore
  /\ prior = NoScore

\* calculateSEOScore is called on the record, the result of the call before is kept
scoreDocument ==
  /\ prior = NoScore
  /\ prior' = scored
  /\ scored' = SEOScoreFrom(FreshLocals, meta)
  /\ UNCHANGED <<pipelineVars, probe, verdict, meta, clientVars>>

ScorerNext == scoreDocument

ScorerSpec == ScorerInit /\ [][ScorerNext]_vars

(***************************************************************************)
(* The page component SEOAnalyzer (client/src/components): its three       *)
(* pieces of state and the calls of handleAnalyze, one at a time.  `result`*)
(* holds the url of the report (NoText for null), `error` the message      *)
(* ("" for null); `cpc` is the place of the running call.                  *)
(***************************************************************************)
MaxCalls == 4

\* what the user submits, and the url a report carries
ClientUrls == {HostA, HostB, PUBLIC4, LOOPBACK4, METADATA4}

\* errorData.message of a response that is not ok, with the fallback of line 48
\* for a body without one, and the messages of a rejected fetch or json()
ErrorMessages == {"Analysis failed", "Invalid URL format", "Unable to resolve hostname",
                  "URL does not serve HTML content", "Request timed out",
                  "Website not found", "Failed to fetch", "Unexpected end of JSON input"}

\* lines 31-33 and the fetch of line 38: the state a call starts from
BeginAnalyzeKeepingResult(u) ==
  /\ isAnalyzing' = TRUE
  /\ error' = ""
  /\ result' = result
  /\ cpc' = "fetching"
  /\ nFetch' = nFetch + 1

BeginAnalyze(u) ==
  /\ isAnalyzing' = TRUE
  /\ error' = ""
  /\ result' = NoText
  /\ cpc' = "fetching"
  /\ nFetch' = nFetch + 1

ClientInit ==
  /\ Start(Malformed)
  /\ probe = NoText
  /\ verdict = "unknown"
  /\ NoScoring
  /\ NoClient

\* URLInput submits a url; no call is running
handleAnalyze ==
  /\ cpc = "idle"
  /\ nFetch < MaxCalls
  /\ \E u \in ClientUrls : BeginAnalyze(u)
  /\ UNCHANGED <<pipelineVars, probe, verdict, scorerVars>>

\* the awaited fetch settles: a report (line 52), or an error that the catch
\* block turns into a message (lines 46-48, 55-57)
settle ==
  /\ cpc = "fetching"
  /\ \/ \E u \in ClientUrls : result' = u /\ error' = error
     \/ \E message \in ErrorMessages : error' = message /\ result' = result
  /\ cpc' = "finally"
  /\ UNCHANGED <<isAnalyzing, nFetch>>
  /\ UNCHANGED <<pipelineVars, probe, verdict, scorerVars>>

\* line 60
finally ==
  /\ cpc = "finally"
  /\ isAnalyzing' = FALSE
  /\ cpc' = "idle"
  /\ UNCHANGED <<result, error, nFetch>>
  /\ UNCHANGED <<pipelineVars, probe, verdict, scorerVars>>

\* the error card of lines 107-124 is on the page
ErrorCardShown == error # "" /\ ~isAnalyzing

\* a click on Try Again
handleRetry ==
  /\ ErrorCardShown
  /\ cpc = "idle"
  /\ IF result # NoText
       THEN nFetch < MaxCalls /\ BeginAnalyze(result)
       ELSE UNCHANGED clientVars
  /\ UNCHANGED <<pipelineVars, probe, verdict, scorerVars>>

ClientNext == handleAnalyze \/ settle \/ finally \/ handleRetry

ClientSpec == ClientInit /\ [][ClientNext]_vars

(***************************************************************************)
(* Properties                                                              *)
(***************************************************************************)
Addrs(a) == {a.addrs[k] : k \in DOMAIN a.addrs}

Forbidden(ip) == isBlockedIP(ip) \/ ip \in METADATA_IPS

\* validateHostname ran both lookups and the call has ended; the answers are still in hand
Resolved == sanResult # "none" /\ v4ans.status # "unasked" /\ v6ans.status # "unasked"

\* both lookups ended in an error or in a list that holds an address
NoEmptyAnswer == (v4ans.status = "error" \/ v4ans.addrs # <<>>) /\ (v6ans.status = "error" \/ v6ans.addrs # <<>>)

\* the port a URL string asks for: the written one, else the default of its scheme
WrittenPort(u) == IF u.port # NoText THEN parseInt(u.port) ELSE IF u.scheme = "https" THEN 443 ELSE 80

PortsOfPolicy == {80, 443, 8080, 8443}

\* C1: every HTTP request of an analysis goes to a URL that validateAndSanitizeUrl
\* returned earlier in the same request: a HEAD or GET is only ever about to be
\* sent to the URL the last (successful) sanitize returned, and once the sanitize
\* of a redirect target fails the request is over with an error.
C1_RequestsOnlyToSanitizedUrls ==
  /\ \A r \in requested : r.url \in sanitized
  /\ pc \in {"preflight", "fetch"} =>
       sanResult = "ok" /\ url \in sanitized /\ url = toString(ParseURL(cand))
  /\ (ctx = "redirect" /\ sanResult \notin {"none", "ok"}) =>
       pc = "done" /\ outcome.status = "error"

C1_Witness ==
  /\ ctx = "redirect"
  /\ nGet = 2
  /\ [method |-> "GET", url |-> Url("http", NoText, HostB, "/")] \in requested

\* C2: when an address answered by the IPv4 or the IPv6 lookup is in a blocked
\* range or is a metadata literal, the hostname validation fails (stated for
\* lookups that end in an error or a non-empty list).
C2_AnyBlockedAddressFails ==
  (Resolved /\ NoEmptyAnswer /\ \E ip \in Addrs(v4ans) \cup Addrs(v6ans) : Forbidden(ip)) => sanResult # "ok"

\* C3: at most one redirect is followed, so a request never sends more than two GETs.
C3_AtMostTwoGets == nGet <= 2

\* C4: a hostname whose answered addresses are all in blocked ranges fails with
\* BlockedAddress (stated for lookups that end in an error or a non-empty list).
C4_AllBlockedIsBlockedAddress ==
  (/\ Resolved
   /\ NoEmptyAnswer
   /\ Addrs(v4ans) \cup Addrs(v6ans) # {}
   /\ \A ip \in Addrs(v4ans) \cup Addrs(v6ans) : isBlockedIP(ip))
  => sanResult = "BlockedAddress"

\* C5: a URL whose host is a metadata literal is rejected by sanitize, whatever
\* its path, without a DNS lookup; no HTTP request ever goes to such a host, and
\* when it is the URL of the request the request fails with nothing sent at all.
C5_MetadataLiteralRejected ==
  /\ \A r \in requested : r.url.host \notin METADATA_IPS
  /\ (cand.wellFormed /\ cand.host \in METADATA_IPS) =>
       /\ sanDns = 0
       /\ pc \in {"sanitize", "done"}
       /\ pc = "done" => sanResult \notin {"none", "ok"} /\ outcome.status = "error"
       /\ ctx = "initial" => nDns = 0 /\ nHead = 0 /\ nGet = 0 /\ requested = {}

C5_Witness ==
  /\ pc = "done"
  /\ ctx = "initial"
  /\ cand = Url("http", NoText, IPv4Text(<<169, 254, 169, 254>>), "/latest/meta-data/")
  /\ sanResult = "BlockedAddress"

\* C6: a URL whose scheme is neither http nor https fails with
\* ProtocolNotAllowed, and at that moment the sanitize call has started no DNS
\* lookup, no HTTP request has gone to that URL, and for the URL of the request
\* no network call has been made at all.
C6_ProtocolRejectedBeforeDns ==
  (pc # "sanitize" /\ cand.wellFormed /\ cand.scheme \notin {"http", "https"}) =>
    /\ sanResult = "ProtocolNotAllowed"
    /\ sanDns = 0
    /\ \A r \in requested : r.url # cand
    /\ ctx = "initial" => nDns = 0 /\ nHead = 0 /\ nGet = 0

C6_Witness ==
  /\ sanResult = "ProtocolNotAllowed"
  /\ ctx = "initial"
  /\ cand = Url("ftp", NoText, HostA, "/")

\* C7: an http/https URL fails with PortNotAllowed exactly when the port it
\* asks for (the written one, else 80 for http and 443 for https) is outside
\* {80, 443, 8080, 8443}.
C7_PortNotAllowedExactly ==
  (pc # "sanitize" /\ cand.wellFormed /\ cand.scheme \in {"http", "https"}) =>
    (sanResult = "PortNotAllowed" <=> WrittenPort(cand) \notin PortsOfPolicy)

C7_Witness ==
  /\ sanResult = "PortNotAllowed"
  /\ cand = Url("https", Dec(22), HostA, "/")

\* C8: sanitize checks parse, protocol, port, hostname in this order and stops
\* at the first that fails: the failure is that of the earliest violated check,
\* a DNS lookup is started only when parse, protocol and port passed, and a URL
\* is returned only when these three passed and the hostname validation ran to
\* its end (a literal not rejected, or both lookups made and, as long as the
\* call's locals are in hand, one of ipv4Success and ipv6Success set).
C8_OrderedFailFast ==
  LET wf      == cand.wellFormed
      okProto == cand.scheme \in {"http", "https"}
      okPort  == WrittenPort(cand) \in PortsOfPolicy
  IN  pc # "sanitize" =>
        /\ ~wf => sanResult = "MalformedURL"
        /\ (wf /\ ~okProto) => sanResult = "ProtocolNotAllowed"
        /\ (wf /\ okProto /\ ~okPort) => sanResult = "PortNotAllowed"
        /\ sanDns > 0 => wf /\ okProto /\ okPort
        /\ sanResult \in {"BlockedAddress", "MetadataBlocked", "ResolutionFailure"} =>
             wf /\ okProto /\ okPort
        /\ sanResult = "ok" =>
             /\ wf /\ okProto /\ okPort
             /\ \/ sanDns = 0 /\ isIPAddress(cand.host) /\ ~Forbidden(cand.host)
                \/ /\ sanDns = 2
                   /\ ~isIPAddress(cand.host)
                   /\ Resolved => ipv4Success \/ ipv6Success

C8_Witness ==
  /\ cand = Url("ftp", Dec(22), LOOPBACK4, "/")
  /\ sanResult = "ProtocolNotAllowed"
  /\ sanDns = 0

\* C9: a non-literal hostname fails with ResolutionFailure if and only if both
\* the IPv4 and the IPv6 lookup fail (stated for lookups that end in an error
\* or a non-empty list).
C9_ResolutionFailureIffBothFail ==
  (Resolved /\ NoEmptyAnswer) => (sanResult = "ResolutionFailure" <=> (v4ans.status = "error" /\ v6ans.status = "error"))

\* C10: a lookup that answers an empty list counts as failed: when each family
\* either failed or answered no address, validation fails with ResolutionFailure.
C10_EmptyAnswerIsFailure ==
  (/\ Resolved
   /\ v4ans.status = "error" \/ v4ans.addrs = <<>>
   /\ v6ans.status = "error" \/ v6ans.addrs = <<>>)
  => sanResult = "ResolutionFailure"


\* C11: when the target of a redirect is refused by validateAndSanitizeUrl as a
\* blocked address, the request fails with BlockedAddress exactly as the
\* validation threw it, not replaced by a generic failure of the fetch
C11_RedirectBlockKindUnchanged ==
  (ctx = "redirect" /\ sanResult = "BlockedAddress")
    => outcome = Failure("BlockedAddress", FALSE)

\* the four octets of a dotted quad
OctetsOf(ip) == LET g == Split(ip, <<".">>[1]) IN [k \in 1..4 |-> parseInt(g[k])]

\* the IPv4 ranges that are to be blocked, by number
InBlockedRange4(o) ==
  \/ o[1] = 0
  \/ o[1] = 10
  \/ o[1] = 100 /\ o[2] \in 64..127
  \/ o[1] = 127
  \/ o[1] = 169 /\ o[2] = 254
  \/ o[1] = 172 /\ o[2] \in 16..31
  \/ o[1] = 192 /\ o[2] = 0 /\ o[3] = 0
  \/ o[1] = 192 /\ o[2] = 168
  \/ o[1] = 198 /\ o[2] \in 18..19
  \/ o[1] \in 224..239
  \/ o = <<255, 255, 255, 255>>

\* the addresses next to those ranges that are to stay allowed
NextToBlockedRange4(o) ==
  \/ o[1] = 100 /\ o[2] \in {63, 128}
  \/ o[1] = 172 /\ o[2] \in {15, 32}
  \/ o[1] = 198 /\ o[2] \in {17, 20}
  \/ o[1] = 192 /\ o[2] = 0 /\ o[3] = 1
  \/ o[1] = 11
  \/ o[1] = 223

InBlockedRange6(ip) ==
  \/ ip = LOOPBACK6
  \/ StartsWith(ip, MAPPED) /\ InBlockedRange4(OctetsOf(SubSeq(ip, Len(MAPPED) + 1, Len(ip))))
  \/ At(ip, 1) = "f" /\ At(ip, 2) \in {"c", "d"} /\ At(ip, 5) = ":"
  \/ At(ip, 1) = "f" /\ At(ip, 2) = "e" /\ At(ip, 3) \in {"8", "9", "a", "b"} /\ At(ip, 5) = ":"

\* C13: isBlockedIP is true of ::1, of the IPv4-mapped form of every blocked IPv4
\* address, of every address in fc00::/7 and of every address in fe80::/10
C13_BlockedRanges6 ==
  (verdict # "unknown" /\ probe \in Probes6 /\ InBlockedRange6(probe)) => verdict = "blocked"

\* C14: a request that fails with UnsupportedContentType, on whichever hop and
\* also after a HEAD answered with 405, was rejected on the headers of the
\* response, before its body had been downloaded
C14_RejectedBeforeBody ==
  (outcome.status = "error" /\ outcome.kind = "UnsupportedContentType") => lastBody = "none"

\* C15: fetchHTML never hands on a body longer than MAX_CONTENT_LENGTH: a GET
\* whose body is longer ends the request with ContentTooLarge, whatever the
\* Content-Length headers said, and a document that is parsed and reported was
\* received whole within the cap
C15_NoBodyOverCap ==
  /\ lastBody = "over" => (pc = "done" /\ outcome.status = "error" /\ outcome.kind = "ContentTooLarge")
  /\ (pc \in {"parse", "score"} \/ outcome.status = "report") => lastBody = "whole"

\* the HEAD was let through and the body of the GET was longer than the cap
C15_Witness == nHead = 1 /\ nGet = 1 /\ lastBody = "over" /\ outcome.kind = "ContentTooLarge"

\* C16: every request ends in the end, with a report or with an error, also
\* when the servers answer every GET with a redirect
C16_Terminates == <>(route = "responded")

\* C17: POST /api/analyze sends one response and no more: none while the
\* request runs, one once it has ended; a response is either the report or an
\* error with its text; when a stage failed it is the error with the message of
\* the failure and holds no report, and a report is sent only when all stages
\* succeeded
C17_ExactlyOneResponse ==
  /\ Len(sent) = (IF route = "responded" THEN 1 ELSE 0)
  /\ \A k \in DOMAIN sent : sent[k].report <=> sent[k].error = ""
  /\ (route = "responded" /\ outcome.status = "error")
       => (~sent[1].report /\ sent[1].code = 500 /\ sent[1].message)
  /\ (route = "responded" /\ sent[1].report) => (outcome.status = "report" /\ sent[1].code = 200)

\* the GET failed and the handler has answered
C17_Witness ==
  route = "responded" /\ nGet = 1 /\ outcome.status = "error" /\ sent = <<RouteResponse(outcome)>>

\* the stage of analyzeWebsite a position belongs to: 1 sanitize (with the
\* resolution of the hostname), 2 preflight, 3 fetch (with the validation of
\* redirect targets), 4 parse, 5 score, 6 ended
Stage ==
  CASE pc = "done" -> 6
    [] pc = "score" -> 5
    [] pc = "parse" -> 4
    [] pc = "preflight" -> 2
    [] pc = "fetch" -> 3
    [] OTHER -> IF ctx = "initial" THEN 1 ELSE 3

\* C18: the stages run in the order sanitize, preflight, fetch, parse, score: a
\* step stays in its stage, or goes on to the next stage with nothing having
\* failed, or ends the request; a report comes only out of the score stage;
\* and once the request has ended, by a failure or by the report, no stage runs
C18_StagesInOrder ==
  [][/\ pc' # "done" => (Stage' \in {Stage, Stage + 1} /\ outcome'.status = "pending")
     /\ outcome'.status = "error" => pc' = "done"
     /\ (outcome'.status = "report" /\ outcome.status # "report") => pc = "score"
     /\ pc = "done" => pc' = "done"]_vars

\* the preflight failed and the request ended with no GET sent
C18_Witness ==
  pc = "done" /\ outcome.status = "error" /\ sanResult = "ok" /\ nHead = 1 /\ nGet = 0

\* C19: nothing is tried again: a call of fetchHTML sends its one GET and is
\* over (a further GET needs a redirect target that passed validation), there
\* is one HEAD, a validation of a hostname makes one IPv4 lookup and then one
\* IPv6 lookup, and once the request has failed no lookup and no request is made
C19_NoRetry ==
  [][/\ nGet' # nGet => (nGet' = nGet + 1 /\ pc = "fetch" /\ pc' # "fetch")
     /\ (pc' = "fetch" /\ pc # "fetch") => (sanResult' = "ok" /\ outcome'.status = "pending")
     /\ nHead' # nHead => (nHead = 0 /\ nHead' = 1 /\ nGet = 0)
     /\ nDns' # nDns => \/ pc = "resolve4" /\ sanDns = 0 /\ sanDns' = 1 /\ pc' = "resolve6"
                        \/ pc = "resolve6" /\ sanDns = 1 /\ sanDns' = 2 /\ pc' \notin {"resolve4", "resolve6"}
     /\ outcome.status = "error" => UNCHANGED <<nDns, nHead, nGet, requested, outcome>>]_vars

\* the GET met a network error and the request ended there
C19_Witness ==
  pc = "done" /\ outcome = Failure("NetworkError", FALSE) /\ nHead = 1 /\ nGet = 1

\* the validation of the hostname of url ended well and every address its
\* lookups answered is a permitted one
ValidatedClean ==
  /\ ~isIPAddress(url.host)
  /\ sanResult = "ok"
  /\ Resolved
  /\ Addrs(v4ans) \cup Addrs(v6ans) # {}
  /\ \A ip \in Addrs(v4ans) \cup Addrs(v6ans) : ~Forbidden(ip)

\* C20: the connection is not bound to the validated address: whenever a HEAD
\* or a GET to a validated hostname is about to be sent, also when the
\* validation saw nothing but permitted addresses, the step in which that
\* request is connected to a blocked address can be taken
C20_ConnectionNotBound ==
  (pc \in {"preflight", "fetch"} /\ ValidatedClean)
    => ENABLED ((preflightCheck \/ FetchStep(nGet + 1)) /\ conn' = LOOPBACK4)

\* the validation saw only permitted addresses and the HEAD went to 127.0.0.1
C20_Witness ==
  ValidatedClean /\ nHead = 1 /\ nGet = 0 /\ conn = LOOPBACK4 /\ isBlockedIP(conn)

\* the penalties of the checks a record fails: title missing 25, shorter than 30
\* characters 15, longer than 60 10; description missing 20, shorter than 120 10,
\* longer than 160 8; og:title or og:description missing 15; og:image missing
\* 10; canonical missing 8; viewport missing 5; robots 0
Penalties(m) ==
  (IF m.title = NoText THEN 25 ELSE IF Len(m.title) < 30 THEN 15 ELSE IF Len(m.title) > 60 THEN 10 ELSE 0)
  + (IF m.description = NoText THEN 20 ELSE IF Len(m.description) < 120 THEN 10
     ELSE IF Len(m.description) > 160 THEN 8 ELSE 0)
  + (IF m.ogTitle = NoText \/ m.ogDescription = NoText THEN 15 ELSE 0)
  + (IF m.ogImage = NoText THEN 10 ELSE 0)
  + (IF m.canonical = NoText THEN 8 ELSE 0)
  + (IF m.viewport = NoText THEN 5 ELSE 0)

\* a 45-character title, no description, complete Open Graph tags, a viewport, no canonical
ScenarioMeta(rb) == Page(Fill(45), NoText, Content, Content, Content, NoText, Content, rb)

\* C21: the score is 100 less the penalties of exactly the checks that fail; for
\* the page with a 45-character title, no description, complete Open Graph
\* tags, a viewport and no canonical it is 100 - 20 - 8, issues holds exactly
\* one error and at least one warning, and tags holds title with status good
C21_ScoreIsHundredLessPenalties ==
  scored # NoScore =>
    /\ scored.score = 100 - Penalties(meta)
    /\ meta \in {ScenarioMeta(NoText), ScenarioMeta(Content)} =>
         /\ scored.score = 100 - 20 - 8
         /\ Cardinality({k \in DOMAIN scored.issues : scored.issues[k].type = "error"}) = 1
         /\ \E k \in DOMAIN scored.issues : scored.issues[k].type = "warning"
         /\ \E k \in DOMAIN scored.tags :
              scored.tags[k].name = "title" /\ scored.tags[k].status = "good"

\* the page of the scenario has been scored
C21_Witness == scored # NoScore /\ meta = ScenarioMeta(NoText) /\ scored.score = 72

\* C22: for every metadata record the score calculateSEOScore returns is a whole
\* number from 0 to 100
C22_ScoreInRange == scored # NoScore => scored.score \in 0..100

\* the record that fails every check has been scored, and the one that fails none
C22_Witness ==
  /\ scored # NoScore
  /\ \/ meta = NoMeta /\ scored.score = 17
     \/ meta = Page(Fill(45), Fill(140), Content, Content, Content, Content, Content, Content)
          /\ scored.score = 100

C24_HtmlFamilyNeverRefused == ~IncludesTextHtml(refused) /\ ~IncludesXhtml(refused)

\* C25: when the HEAD is answered with status 405 the request goes on to the
\* GET; when the HEAD ends in any other error (another status from 400 on, a
\* network error, a timeout) the request fails and no GET is sent
C25_Only405Proceeds ==
  last.method = "HEAD" =>
    /\ (last.net = "ok" /\ last.status = 405) => (pc = "fetch" /\ outcome = Pending)
    /\ (last.net # "ok" \/ (last.status >= 400 /\ last.status # 405))
         => (pc = "done" /\ outcome.status = "error" /\ nGet = 0
             /\ \A q \in requested : q.method = "HEAD")

\* the HEAD has been answered with 405 and the GET is next
C25_Witness == last = [method |-> "HEAD", net |-> "ok", status |-> 405, location |-> FALSE] /\ pc = "fetch"

\* C26: there is at most one HEAD, sent to the initial validated URL; the step
\* that follows a redirect has sent one GET and no HEAD, and the validated
\* target of a redirect goes to its GET with no HEAD before it, so that a
\* request that followed k redirects has made one HEAD and one GET per hop
C26_OneHeadGetPerHop ==
  [][/\ nHead' <= 1
     /\ nHead' # nHead => (ctx = "initial" /\ nGet = 0 /\ url = toString(ParseURL(cand))
                           /\ requested' = requested \cup {[method |-> "HEAD", url |-> url]})
     /\ pc' = "preflight" => ctx' = "initial"
     /\ (pc = "fetch" /\ pc' = "sanitize") => (nGet' = nGet + 1 /\ nHead = 1 /\ nHead' = 1)
     /\ (ctx = "redirect" /\ pc # "fetch" /\ pc' = "fetch") => (nHead' = nHead /\ nGet' = nGet)
     /\ Cardinality({q \in requested' : q.method = "HEAD"}) = nHead']_vars

\* one redirect was followed: one HEAD and two GETs were sent, and the report came
C26_Witness == ctx = "redirect" /\ nHead = 1 /\ nGet = 2 /\ outcome.status = "report"

\* C27: a GET answered with a 3xx status and no Location header is not taken
\* for a redirect: no request follows it, its body is the document unless the
\* content type is refused (or the body is over the cap), and the analysis of
\* that document ends with the report
C27_RedirectWithoutLocationIsDocument ==
  (last.method = "GET" /\ last.net = "ok" /\ last.status \in 300..399 /\ ~last.location) =>
    /\ pc \in {"parse", "score", "done"}
    /\ outcome.status = "error" => outcome.kind \in {"UnsupportedContentType", "ContentTooLarge"}
    /\ (lastBody = "whole" /\ refused = "") => (outcome.status # "error" /\ (pc = "done" => outcome = Report))

\* the GET was answered 302 without Location and the report was returned
C27_Witness ==
  /\ last = [method |-> "GET", net |-> "ok", status |-> 302, location |-> FALSE]
  /\ nGet = 1
  /\ outcome = Report

\* the names of the tags list, each with the metadata field it reports
TagFields ==
  [title |-> "title", description |-> "description", ogTitle |-> "og:title",
   ogDescription |-> "og:description", ogImage |-> "og:image", canonical |-> "canonical",
   viewport |-> "viewport", robots |-> "robots"]

\* C28: for every metadata record the tags list holds exactly one entry for each
\* of title, description, og:title, og:description, og:image, canonical,
\* viewport and robots, and a tag the page has is listed with its content
C28_OneTagPerName ==
  scored # NoScore =>
    \A f \in MetaFields :
      /\ Cardinality({k \in DOMAIN scored.tags : scored.tags[k].name = TagFields[f]}) = 1
      /\ meta[f] # NoText =>
           \E k \in DOMAIN scored.tags :
             scored.tags[k].name = TagFields[f] /\ scored.tags[k].content = meta[f]


\* C29: in the page component error and result are never both set, isAnalyzing
\* is false whenever no call is running, the error card is only ever shown
\* with result null, and a click on Try Again starts no analysis request
C29_RetryStartsNothing ==
  [][/\ ~(error # "" /\ result # NoText)
     /\ ~(error' # "" /\ result' # NoText)
     /\ (cpc' = "idle" => ~isAnalyzing')
     /\ (ErrorCardShown => result = NoText)
     /\ (handleRetry => nFetch' = nFetch)]_vars

\* a call has failed, the error card is on the page and no call is running
C29_Witness == ErrorCardShown /\ cpc = "idle" /\ nFetch = 2 /\ ENABLED handleRetry


\* C30: each address of METADATA_IPS is matched by a pattern of
\* BLOCKED_IP_RANGES, so a literal host and a resolved IPv4 address that is a
\* metadata address is refused by the range test, which comes first, and no
\* request fails with 'Access to metadata services is blocked'
C30_MetadataRejectionNeverReported ==
  /\ \A ip \in METADATA_IPS : isBlockedIP(ip) /\ ValidateLiteral(ip) = "BlockedAddress"
  /\ \A k \in DOMAIN v4ans.addrs : v4ans.addrs[k] \in METADATA_IPS => isBlockedIP(v4ans.addrs[k])
  /\ sanResult # "MetadataBlocked"
  /\ outcome.kind # "MetadataBlocked"

\* a request for a metadata literal has failed, on the range test
C30_Witness ==
  /\ cand.wellFormed
  /\ cand.host \in METADATA_IPS
  /\ ValidateLiteral(cand.host) = "BlockedAddress"
  /\ outcome = Failure("BlockedAddress", FALSE)
  /\ v4ans = Unasked

=============================================================================
